---- MODULE Spec2Model ----
(***************************************************************************)
(* Couette-Poiseuille flow solvers of src/app.py: the finite-difference    *)
(* boundary-value solve, the two Euler initial-value integrators and the   *)
(* integer shooting search for the initial slope.                          *)
(*                                                                         *)
(* Real numbers are exact rationals [n, d] with d > 0, not necessarily in   *)
(* lowest terms (compare them with REq and RLt, never with =);             *)
(* float('inf') is the pair [1, 0].  Arrays are functions on 0..len-1, as  *)
(* the source indexes them.                                                *)
(***************************************************************************)
EXTENDS Integers, Sequences, FiniteSets, TLC

VARIABLES
    call,             \* the function under execution
    P, N, h,          \* its arguments: pressure gradient, grid count, step size
    pc,               \* position in the code
    err,              \* the exception that ended the call, or "none"
    dy, y, A, b, u,   \* locals and result of solve_couette_poiseuille
    i,                \* loop index of the running for loop
    iteration,        \* local of IVP_Explicit / IVP_Implicit
    u1, u2,           \* arrays of the running integrator
    steps,            \* update steps the running integrator has performed
    u_explicit,       \* (u1, u2) returned by IVP_Explicit, kept by the caller
    u2_initial_guess, \* loop variable of initial_value
    final_u1,         \* last value returned by shooting_method
    closest_u2,       \* best candidate so far (None before the first)
    closest_diff      \* its deviation (Inf before the first)

vars == <<call, P, N, h, pc, err, dy, y, A, b, u, i, iteration, u1, u2, steps,
          u_explicit, u2_initial_guess, final_u1, closest_u2, closest_diff>>

----------------------------------------------------------------------------
\* Bounds of the explored inputs.
MaxN == 5          \* N ranges over -2..MaxN
MaxP2 == 4         \* P ranges over the halves k/2, |k| <= MaxP2, and TieP
MaxPI == 1         \* in the integrators P ranges over the integers |k| <= MaxPI
MaxHNum == 2       \* h ranges over n/d, |n| <= MaxHNum,
MaxHDen == 3       \*                    1 <= d <= MaxHDen

----------------------------------------------------------------------------
\* Exact rational arithmetic.
Abs(x) == IF x < 0 THEN -x ELSE x

RECURSIVE GCD(_, _)
GCD(m, n) == IF n = 0 THEN m ELSE GCD(n, m % n)

LCM(m, n) == (m \div GCD(m, n)) * n

\* n/d in lowest terms with a positive denominator (d # 0)
R(n, d) ==
    LET s == IF d < 0 THEN -1 ELSE 1
        g == GCD(Abs(n), Abs(d))
    IN  [n |-> (s * n) \div g, d |-> (s * d) \div g]

Int2R(k) == [n |-> k, d |-> 1]
Zero == Int2R(0)
One == Int2R(1)
Inf == [n |-> 1, d |-> 0]

RNeg(a) == [n |-> -a.n, d |-> a.d]
RAdd(a, c) ==
    IF a.d = c.d THEN [n |-> a.n + c.n, d |-> a.d]
    ELSE LET l == LCM(a.d, c.d)
         IN  [n |-> a.n * (l \div a.d) + c.n * (l \div c.d), d |-> l]
RSub(a, c) == RAdd(a, RNeg(c))
RMul(a, c) == [n |-> a.n * c.n, d |-> a.d * c.d]
RAbs(a) == [n |-> Abs(a.n), d |-> a.d]
\* 1/a; 1/0 is Inf
RInv(a) == IF a.n < 0 THEN [n |-> -a.d, d |-> -a.n] ELSE [n |-> a.d, d |-> a.n]
REq(a, c) ==
    IF a.d = c.d THEN a.n = c.n
    ELSE LET l == LCM(a.d, c.d)
         IN  a.n * (l \div a.d) = c.n * (l \div c.d)
\* a < c, where c may be Inf
RLt(a, c) ==
    IF c.d = 0 THEN a.d # 0
    ELSE IF a.d = 0 THEN FALSE
    ELSE IF a.d = c.d THEN a.n < c.n
    ELSE LET l == LCM(a.d, c.d)
         IN  a.n * (l \div a.d) < c.n * (l \div c.d)

\* Python's round(): to the nearest integer, halves to the even neighbour.
Round(a) ==
    LET f == a.n \div a.d
        r == a.n - f * a.d
    IN  IF 2 * r < a.d THEN f
        ELSE IF 2 * r > a.d THEN f + 1
        ELSE IF f % 2 = 0 THEN f ELSE f + 1

----------------------------------------------------------------------------
\* Program constants.
RangeStop == 100                 \* range(100) of initial_value
ShootH == R(1, 100)              \* h = 0.01 of shooting_method
Target == One                    \* the boundary value u(1) = 1
None == -1                       \* Python's None, as a slope that is no candidate

\* Inputs.  TieP = 5150/99 is a pressure gradient for which two neighbouring
\* candidate slopes (26 and 27) deviate from the target by the same amount.
TieP == R(5150, 99)
PSet == {R(k, 2) : k \in -MaxP2..MaxP2} \cup {TieP}
PSetIVP == {Int2R(k) : k \in -MaxPI..MaxPI}
NSet == -2..MaxN
HSet == {R(n, d) : n \in -MaxHNum..MaxHNum, d \in 1..MaxHDen}
DefaultP == R(2, 1)
DefaultN == MaxN
DefaultH == ShootH

----------------------------------------------------------------------------
\* analytical_solution(y, P) = y + (P / 2) * y * (1 - y)
analytical_solution(yy, p) ==
    RAdd(yy, RMul(RMul(RMul(p, R(1, 2)), yy), RSub(One, yy)))

----------------------------------------------------------------------------
\* One pass of the explicit Euler loop body on the state s = (u1[i], u2[i]):
\* both updates read the old state.
ExplicitUpdate(s, p, hh) ==
    [u1 |-> RAdd(s.u1, RMul(s.u2, hh)),
     u2 |-> RAdd(s.u2, RMul(RNeg(p), hh))]

\* ImplicitUpdate with u1 computed from the old u2
ImplicitUpdateOldSlope(s, p, hh) ==
    [u1 |-> RAdd(s.u1, RMul(s.u2, hh)),
     u2 |-> RAdd(s.u2, RMul(RNeg(p), hh))]

\* One pass of the loop body of IVP_Implicit: u2 first, then u1 from the new u2.
ImplicitUpdate(s, p, hh) ==
    LET new_u2 == RAdd(s.u2, RMul(RNeg(p), hh))
    IN  [u1 |-> RAdd(s.u1, RMul(new_u2, hh)), u2 |-> new_u2]

\* k consecutive passes of the explicit loop body, for i in range(k), taken as
\* the first k \div 2 passes followed by the rest.  The test on `half` has TLC
\* evaluate the first half before it descends into the second, which keeps
\* the evaluation shallow; it is always true.
RECURSIVE ExplicitMarch(_, _, _, _)
ExplicitMarch(s, p, hh, k) ==
    IF k <= 0 THEN s
    ELSE IF k = 1 THEN ExplicitUpdate(s, p, hh)
    ELSE LET half == ExplicitMarch(s, p, hh, k \div 2)
         IN  IF half = half THEN ExplicitMarch(half, p, hh, k - (k \div 2)) ELSE s

\* shooting_method(u2_initial_guess, p): arrays of round(1/h) samples, the loop
\* runs over range(iteration - 1), and the last sample u1[-1] is returned.
shooting_method(guess, p) ==
    LET n_samples == Round(RInv(ShootH))
    IN  ExplicitMarch([u1 |-> Zero, u2 |-> Int2R(guess)], p, ShootH, n_samples - 1).u1

\* diff = abs(final_u1 - 1)
Deviation(final) == RAbs(RSub(final, Target))

\* SearchUpdate with the comparison turned round (diff > closest_diff)
SearchUpdateGreater(guess, diff, best) ==
    IF RLt(best.diff, diff) THEN [u2 |-> guess, diff |-> diff] ELSE best

\* SearchUpdate with diff <= closest_diff
SearchUpdateOrEqual(guess, diff, best) ==
    IF ~RLt(best.diff, diff) THEN [u2 |-> guess, diff |-> diff] ELSE best

\* if diff < closest_diff: closest_diff = diff; closest_u2 = u2_initial_guess
SearchUpdate(guess, diff, best) ==
    IF RLt(diff, best.diff) THEN [u2 |-> guess, diff |-> diff] ELSE best

----------------------------------------------------------------------------
Functions == {"solve_couette_poiseuille", "IVP_Explicit", "IVP_Implicit", "initial_value"}
Empty == <<>>

Init ==
    /\ call \in Functions
    /\ P \in IF call \in {"IVP_Explicit", "IVP_Implicit"} THEN PSetIVP ELSE PSet
    /\ N \in IF call = "solve_couette_poiseuille" THEN NSet ELSE {DefaultN}
    /\ h \in IF call \in {"IVP_Explicit", "IVP_Implicit"} THEN HSet ELSE {DefaultH}
    /\ pc = "entry"
    /\ err = "none"
    /\ dy = Zero /\ y = Empty /\ A = Empty /\ b = Empty /\ u = Empty
    /\ i = 0 /\ iteration = 0 /\ u1 = Empty /\ u2 = Empty /\ steps = 0
    /\ u_explicit = [u1 |-> Empty, u2 |-> Empty]
    /\ u2_initial_guess = None /\ final_u1 = Zero
    /\ closest_u2 = None /\ closest_diff = Inf

bvpVars == <<dy, y, A, b, u>>
ivpVars == <<iteration, u1, u2, steps, u_explicit>>
searchVars == <<u2_initial_guess, final_u1, closest_u2, closest_diff>>
argVars == <<P, N, h>>

----------------------------------------------------------------------------
\* initial_value(p)

\* lines 93-94
InitialValueEnter ==
    /\ pc = "iv_entry"
    /\ closest_u2' = None
    /\ closest_diff' = Inf
    /\ u2_initial_guess' = None
    /\ pc' = "iv_loop"
    /\ UNCHANGED <<call, argVars, err, bvpVars, i, ivpVars, final_u1>>

\* lines 95-100: one pass of the loop over range(100)
InitialValueStep ==
    /\ pc = "iv_loop"
    /\ u2_initial_guess + 1 < RangeStop
    /\ LET guess == u2_initial_guess + 1
           final == shooting_method(guess, P)
           best == SearchUpdate(guess, Deviation(final),
                                [u2 |-> closest_u2, diff |-> closest_diff])
       IN  /\ u2_initial_guess' = guess
           /\ final_u1' = final
           /\ closest_u2' = best.u2
           /\ closest_diff' = best.diff
    /\ UNCHANGED <<call, argVars, pc, err, bvpVars, i, ivpVars>>

\* line 101; in an integrator the value is stored into u2[0] (lines 61, 72),
\* which fails for None
InitialValueReturn ==
    /\ pc = "iv_loop"
    /\ u2_initial_guess + 1 >= RangeStop
    /\ IF call = "initial_value"
       THEN /\ pc' = "done"
            /\ UNCHANGED <<err, u2>>
       ELSE IF closest_u2 = None
       THEN /\ pc' = "error"
            /\ err' = "TypeError"
            /\ UNCHANGED u2
       ELSE /\ pc' = "ivp_loop"
            /\ u2' = [u2 EXCEPT ![0] = Int2R(closest_u2)]
            /\ UNCHANGED err
    /\ UNCHANGED <<call, argVars, bvpVars, i, iteration, u1, steps, u_explicit, searchVars>>

\* the caller's call of initial_value
CallInitialValue ==
    /\ call = "initial_value"
    /\ pc = "entry"
    /\ pc' = "iv_entry"
    /\ UNCHANGED <<call, argVars, err, bvpVars, i, ivpVars, searchVars>>

----------------------------------------------------------------------------
\* solve_couette_poiseuille(P, N)

\* np.zeros(n), np.zeros((n, n)), np.linspace(0, 1, n)
zeros(n) == [k \in 0..(n - 1) |-> Zero]
zeros2(n) == [r \in 0..(n - 1) |-> zeros(n)]
linspace(n) == [k \in 0..(n - 1) |-> IF n = 1 THEN Zero ELSE R(k, n - 1)]

\* InteriorRow with the sign of the diagonal lost
InteriorRowPlus2(AA, k) ==
    [AA EXCEPT ![k][k - 1] = One, ![k][k] = Int2R(2), ![k][k + 1] = One]

\* lines 44-46: the stencil written into row k
InteriorRow(AA, k) ==
    [AA EXCEPT ![k][k - 1] = One, ![k][k] = Int2R(-2), ![k][k + 1] = One]

\* RowRhs without the square
RowRhsLinear(p, dyy) == RMul(RNeg(p), dyy)

\* line 47: b[i] = -P * dy**2
RowRhs(p, dyy) == RMul(RNeg(p), RMul(dyy, dyy))

\* lines 48, 50: A[0, 0] = 1; A[-1, -1] = 1
BoundaryRows(AA, n) == [AA EXCEPT ![0][0] = One, ![n - 1][n - 1] = One]

\* BoundaryRhs without b[-1] = 1
BoundaryRhsFirstOnly(bb, n) == [bb EXCEPT ![0] = Zero]

\* lines 49, 51: b[0] = 0; b[-1] = 1
BoundaryRhs(bb, n) == [bb EXCEPT ![0] = Zero, ![n - 1] = One]

\* Determinant of the square matrix M, expanded along row r over the columns
\* cols still free (a sequence in increasing order).
RemoveAt(seq, j) == SubSeq(seq, 1, j - 1) \o SubSeq(seq, j + 1, Len(seq))

RECURSIVE Det(_, _, _), DetSum(_, _, _, _)
Det(M, r, cols) == IF cols = <<>> THEN One ELSE DetSum(M, r, cols, 1)
DetSum(M, r, cols, j) ==
    IF j > Len(cols) THEN Zero
    ELSE LET e == M[r][cols[j]]
             minor == Det(M, r + 1, RemoveAt(cols, j))
             term == IF e.n = 0 THEN Zero
                     ELSE IF j % 2 = 1 THEN RMul(e, minor)
                     ELSE RNeg(RMul(e, minor))
         IN  RAdd(term, DetSum(M, r, cols, j + 1))

Columns(n) == [k \in 1..n |-> k - 1]
Determinant(M, n) == Det(M, 0, Columns(n))
ReplaceColumn(M, n, c, v) == [r \in 0..(n - 1) |-> [M[r] EXCEPT ![c] = v[r]]]
Singular(M, n) == Determinant(M, n).n = 0

\* line 52: np.linalg.solve(A, b), the solution of the non-singular system
\* A x = b (by Cramer's rule)
solve(M, v, n) ==
    [k \in 0..(n - 1) |->
        RMul(Determinant(ReplaceColumn(M, n, k, v), n), RInv(Determinant(M, n)))]

\* DyFails for a division that yields inf instead of raising
DyNeverFails(n) == FALSE

\* line 39 raises ZeroDivisionError when N - 1 = 0
DyFails(n) == n - 1 = 0

\* lines 39-42
BVPEnter ==
    /\ call = "solve_couette_poiseuille"
    /\ pc = "entry"
    /\ IF DyFails(N)
       THEN /\ pc' = "error"
            /\ err' = "ZeroDivisionError"
            /\ UNCHANGED <<bvpVars, i>>
       ELSE IF N < 0
       THEN /\ pc' = "error"
            /\ err' = "ValueError"
            /\ dy' = RInv(Int2R(N - 1))
            /\ UNCHANGED <<y, A, b, u, i>>
       ELSE /\ dy' = RInv(Int2R(N - 1))
            /\ y' = linspace(N)
            /\ A' = zeros2(N)
            /\ b' = zeros(N)
            /\ i' = 1
            /\ pc' = "bvp_loop"
            /\ UNCHANGED <<err, u>>
    /\ UNCHANGED <<call, argVars, ivpVars, searchVars>>

\* lines 43-47: one pass of the loop over range(1, N - 1)
BVPRow ==
    /\ pc = "bvp_loop"
    /\ i < N - 1
    /\ A' = InteriorRow(A, i)
    /\ b' = [b EXCEPT ![i] = RowRhs(P, dy)]
    /\ i' = i + 1
    /\ UNCHANGED <<call, argVars, pc, err, dy, y, u, ivpVars, searchVars>>

\* lines 48-51; A[0, 0] raises IndexError on the empty array
BVPBoundary ==
    /\ pc = "bvp_loop"
    /\ i >= N - 1
    /\ IF N = 0
       THEN /\ pc' = "error"
            /\ err' = "IndexError"
            /\ UNCHANGED <<A, b>>
       ELSE /\ A' = BoundaryRows(A, N)
            /\ b' = BoundaryRhs(b, N)
            /\ pc' = "bvp_solve"
            /\ UNCHANGED err
    /\ UNCHANGED <<call, argVars, dy, y, u, i, ivpVars, searchVars>>

\* lines 52-53
BVPSolve ==
    /\ pc = "bvp_solve"
    /\ IF Singular(A, N)
       THEN /\ pc' = "error"
            /\ err' = "LinAlgError"
            /\ UNCHANGED u
       ELSE /\ u' = solve(A, b, N)
            /\ pc' = "done"
            /\ UNCHANGED err
    /\ UNCHANGED <<call, argVars, dy, y, A, b, i, ivpVars, searchVars>>

----------------------------------------------------------------------------
\* IVP_Explicit(p, h) and IVP_Implicit(p, h)

\* ImplicitIterations without the + 1
ImplicitIterationsShort(hh) == Round(RInv(hh))

\* line 57 and line 68: iteration = round(1/h) + 1
ExplicitIterations(hh) == Round(RInv(hh)) + 1
ImplicitIterations(hh) == Round(RInv(hh)) + 1

\* lines 57-60 and 68-71; 1/h raises ZeroDivisionError, np.zeros of a negative
\* length raises ValueError, u1[0] = 0 on an empty array raises IndexError.
\* Line 61 / 72 then calls initial_value(p).
IVPEnter ==
    /\ call \in {"IVP_Explicit", "IVP_Implicit"}
    /\ pc = "entry"
    /\ IF h.n = 0
       THEN /\ pc' = "error"
            /\ err' = "ZeroDivisionError"
            /\ UNCHANGED <<iteration, u1, u2>>
       ELSE LET it == IF call = "IVP_Explicit" THEN ExplicitIterations(h)
                      ELSE ImplicitIterations(h)
            IN  /\ iteration' = it
                /\ IF it < 0
                   THEN /\ pc' = "error"
                        /\ err' = "ValueError"
                        /\ UNCHANGED <<u1, u2>>
                   ELSE IF it = 0
                   THEN /\ pc' = "error"
                        /\ err' = "IndexError"
                        /\ u1' = Empty
                        /\ u2' = Empty
                   ELSE /\ pc' = "iv_entry"
                        /\ u1' = zeros(it)
                        /\ u2' = zeros(it)
                        /\ UNCHANGED err
    /\ i' = 0
    /\ steps' = 0
    /\ UNCHANGED <<call, argVars, bvpVars, u_explicit, searchVars>>

\* lines 62-64 and 73-75: one pass of the loop over range(iteration - 1)
IVPStep ==
    /\ pc = "ivp_loop"
    /\ i < iteration - 1
    /\ LET s == [u1 |-> u1[i], u2 |-> u2[i]]
           nx == IF call = "IVP_Explicit" THEN ExplicitUpdate(s, P, h)
                 ELSE ImplicitUpdate(s, P, h)
       IN  /\ u1' = [u1 EXCEPT ![i + 1] = nx.u1]
           /\ u2' = [u2 EXCEPT ![i + 1] = nx.u2]
    /\ i' = i + 1
    /\ steps' = steps + 1
    /\ UNCHANGED <<call, argVars, pc, err, bvpVars, iteration, u_explicit, searchVars>>

\* lines 65 and 76
IVPReturn ==
    /\ pc = "ivp_loop"
    /\ i >= iteration - 1
    /\ pc' = "done"
    /\ u_explicit' = IF call = "IVP_Explicit" THEN [u1 |-> u1, u2 |-> u2]
                     ELSE u_explicit
    /\ UNCHANGED <<call, argVars, err, bvpVars, i, iteration, u1, u2, steps, searchVars>>

\* lines 123-124 of the script: IVP_Implicit(P, h) is called after
\* IVP_Explicit(P, h) has returned
CallImplicitAfterExplicit ==
    /\ call = "IVP_Explicit"
    /\ pc = "done"
    /\ call' = "IVP_Implicit"
    /\ pc' = "entry"
    /\ UNCHANGED <<argVars, err, bvpVars, i, ivpVars, searchVars>>

----------------------------------------------------------------------------
Next ==
    \/ CallInitialValue
    \/ InitialValueEnter
    \/ InitialValueStep
    \/ InitialValueReturn
    \/ BVPEnter
    \/ BVPRow
    \/ BVPBoundary
    \/ BVPSolve
    \/ IVPEnter
    \/ IVPStep
    \/ IVPReturn
    \/ CallImplicitAfterExplicit

Spec == Init /\ [][Next]_vars

----------------------------------------------------------------------------
\* Helpers of the properties.
IsIVP == call \in {"IVP_Explicit", "IVP_Implicit"}
IsBVP == call = "solve_couette_poiseuille"
Positive(a) == RLt(Zero, a)
SearchFinished == pc # "iv_entry" /\ u2_initial_guess = RangeStop - 1
DeviationOf(guess) == Deviation(shooting_method(guess, P))
\* both integrators have returned, IVP_Explicit first
BothReturned ==
    call = "IVP_Implicit" /\ pc = "done" /\ DOMAIN u_explicit.u1 # {}
Stencil(r, c) ==
    IF c = r THEN Int2R(-2) ELSE IF c = r - 1 \/ c = r + 1 THEN One ELSE Zero
UnitRow(M, r) ==
    \A c \in DOMAIN M[r] : REq(M[r][c], IF c = r THEN One ELSE Zero)
RECURSIVE RowDot(_, _, _)
RowDot(row, v, k) ==
    IF k < 0 THEN Zero ELSE RAdd(RMul(row[k], v[k]), RowDot(row, v, k - 1))
Linear(n) == [k \in 0..(n - 1) |-> R(k, n - 1)]

\* C1: initial_value(P) never fails and returns an integer slope in 0..99
\* (never None), standalone and inside the integrators.
C1_SlopeInRange ==
    /\ err # "TypeError"
    /\ SearchFinished /\ pc # "iv_loop" => closest_u2 \in 0..99

C1_Witness ==
    call = "initial_value" /\ pc = "done" /\ closest_u2 \in 0..99

\* C2: the slope returned by initial_value(P) minimises
\* |shooting_method(s, P) - 1| over the candidates 0..99, and every lower
\* candidate deviates strictly more (the lowest minimiser is returned).
C2_LowestMinimiser ==
    call = "initial_value" /\ pc = "done" =>
        /\ closest_u2 \in 0..(RangeStop - 1)
        /\ \A s \in 0..(RangeStop - 1) :
             /\ ~RLt(DeviationOf(s), DeviationOf(closest_u2))
             /\ s < closest_u2 => RLt(DeviationOf(closest_u2), DeviationOf(s))

\* a finished search in which two candidates attain the minimum
C2_Witness ==
    /\ call = "initial_value" /\ pc = "done"
    /\ \E s \in 0..(RangeStop - 1) :
         s # closest_u2 /\ REq(DeviationOf(s), DeviationOf(closest_u2))

\* C3: for N >= 2 the returned u has u[0] = 0 and u[N-1] = 1 exactly, rows 0
\* and N-1 of the assembled system being identity rows with right-hand
\* sides 0 and 1.
C3_BoundaryValues ==
    IsBVP /\ pc = "done" =>
        /\ N >= 2
        /\ REq(u[0], Zero) /\ REq(u[N - 1], One)
        /\ UnitRow(A, 0) /\ UnitRow(A, N - 1)
        /\ REq(b[0], Zero) /\ REq(b[N - 1], One)

C3_Witness == IsBVP /\ pc = "done" /\ N = 2 /\ P.n # 0

\* C4: once assembled, every interior row i in 1..N-2 holds exactly the
\* stencil (1, -2, 1) and b[i] = -P/(N-1)^2, before and after the boundary
\* assignments; P = 2, N = 5 gives b = [0, -1/8, -1/8, -1/8, 1].
C4_InteriorRows ==
    /\ IsBVP /\ pc \in {"bvp_loop", "bvp_solve", "done"} =>
         \A r \in 1..(N - 2) :
            (pc = "bvp_loop" => r < i) =>
               /\ \A c \in 0..(N - 1) : REq(A[r][c], Stencil(r, c))
               /\ REq(b[r], R(-P.n, P.d * (N - 1) * (N - 1)))
    /\ IsBVP /\ pc \in {"bvp_solve", "done"} /\ N = 5 /\ REq(P, Int2R(2)) =>
         /\ REq(b[0], Zero) /\ REq(b[4], One)
         /\ \A r \in 1..3 : REq(b[r], R(-1, 8))

C4_Witness ==
    IsBVP /\ pc = "bvp_solve" /\ N = 5 /\ REq(P, Int2R(2)) /\ REq(b[2], R(-1, 8))

\* C5: for every h <= 0 the integrators end in an error at entry and never
\* return a trajectory.
C5_NonPositiveStepRejected ==
    IsIVP /\ ~Positive(h) => pc # "done"

\* C6: for every N < 2, solve_couette_poiseuille ends in an error and never
\* solves or returns.
C6_SmallGridFails ==
    IsBVP /\ N < 2 =>
        /\ pc \in {"entry", "bvp_loop", "error"}
        /\ DOMAIN u = {}

C6_Witness == IsBVP /\ N = 0 /\ pc = "error" /\ err = "IndexError"

\* C7: for h > 0 the integrators do not fail; each returns u and u' of length
\* M = round(1/h) + 1 after M - 1 update steps, from u[0] = 0 and
\* u'[0] = initial_value(P); the two results have the same length and start.
C7_SameLength ==
    IsIVP /\ Positive(h) =>
        /\ pc # "error"
        /\ pc = "done" =>
             LET M == Round(RInv(h)) + 1
             IN  /\ DOMAIN u1 = 0..(M - 1) /\ DOMAIN u2 = 0..(M - 1)
                 /\ steps = M - 1
                 /\ REq(u1[0], Zero)
                 /\ closest_u2 \in 0..(RangeStop - 1)
                 /\ REq(u2[0], Int2R(closest_u2))
                 /\ BothReturned =>
                      /\ DOMAIN u_explicit.u1 = DOMAIN u1
                      /\ DOMAIN u_explicit.u2 = DOMAIN u2
                      /\ REq(u_explicit.u1[0], u1[0])
                      /\ REq(u_explicit.u2[0], u2[0])

C7_Witness == BothReturned /\ Positive(h) /\ steps >= 2

\* C8 as stated: for every nonzero P and every h > 0 the u sequences returned
\* by the two integrators differ.
C8_DifferForEveryStep ==
    BothReturned /\ P.n # 0 /\ Positive(h) =>
        \E k \in DOMAIN u1 : ~REq(u1[k], u_explicit.u1[k])

\* C8, amended: IVP_Explicit computes u[k+1] from the old u'[k], IVP_Implicit
\* first sets u'[k+1] = u'[k] - P*h and computes u[k+1] from it; for nonzero P
\* and h > 0 with round(1/h) >= 1 (at least one update step) the two u
\* sequences differ.
C8_DifferWhenStepping ==
    /\ IsIVP /\ pc = "done" =>
         \A k \in DOMAIN u1 : (k + 1) \in DOMAIN u1 =>
            /\ REq(u2[k + 1], RSub(u2[k], RMul(P, h)))
            /\ REq(u1[k + 1],
                   RAdd(u1[k], RMul(IF call = "IVP_Explicit" THEN u2[k]
                                    ELSE u2[k + 1], h)))
    /\ BothReturned /\ P.n # 0 /\ Positive(h) /\ Round(RInv(h)) >= 1 =>
         \E k \in DOMAIN u1 : ~REq(u1[k], u_explicit.u1[k])

C8_Witness ==
    /\ BothReturned /\ P.n # 0 /\ Positive(h) /\ Round(RInv(h)) >= 1
    /\ ~REq(u1[1], u_explicit.u1[1])

\* C9: for P = 0 and N >= 2 the assembled system is non-singular, the linear
\* profile i/(N-1) satisfies every row of A u = b, and the returned solution
\* equals it and the analytical solution at every grid point.
C9_LinearProfile ==
    IsBVP /\ REq(P, Zero) /\ N >= 2 =>
        /\ pc # "error"
        /\ pc \in {"bvp_solve", "done"} =>
             /\ ~Singular(A, N)
             /\ \A r \in 0..(N - 1) : REq(RowDot(A[r], Linear(N), N - 1), b[r])
        /\ pc = "done" =>
             \A k \in 0..(N - 1) :
                /\ REq(u[k], R(k, N - 1))
                /\ REq(u[k], analytical_solution(y[k], P))

C9_Witness == IsBVP /\ REq(P, Zero) /\ N >= 4 /\ pc = "done" /\ REq(u[1], R(1, N - 1))

\* C10: the terminal value observed by shooting_method(s, P) is u at y = 1:
\* the last u sample of the explicit Euler loop of IVP_Explicit with h = 0.01
\* (round(1/h) = 100 steps) started from (u, u') = (0, s).
IVP_ExplicitLast(s, p, hh) ==
    ExplicitMarch([u1 |-> Zero, u2 |-> Int2R(s)], p, hh,
                  ExplicitIterations(hh) - 1).u1

C10_TerminalValueAtOne ==
    pc = "iv_loop" /\ u2_initial_guess >= 0 =>
        REq(final_u1, IVP_ExplicitLast(u2_initial_guess, P, ShootH))

====
